---- MODULE Spec2Model ----
(***************************************************************************)
(* A model of ImitatePass (src/imitatepass.cpp): the password-store        *)
(* operations of QtPass that imitate `pass` with gpg and git.              *)
(*                                                                         *)
(* Strings are sequences of tokens (words, "/", " ", "\n", ".gpg"), so     *)
(* that concatenation, split, suffix stripping and right(1) are computed.  *)
(* gpg and git are external tools: they are assumed to do what their       *)
(* command line asks, except decryption, whose failure the code handles.   *)
(* The UI invokes a handler only when no asynchronous job is pending: the  *)
(* store has a single writer and callers serialize their operations.       *)
(***************************************************************************)
EXTENDS Integers, Sequences, FiniteSets, TLC

----------------------------------------------------------------------------
(* Bounds *)

\* Number of UI-level handler invocations (Insert, Remove, Init, reencryptPath).
MaxOps == 1

----------------------------------------------------------------------------
(* Recipient identifiers *)

KeyA == "AAAAAAAAAAAAAAAA"
KeyB == "BBBBBBBBBBBBBBBB"
Alias == "alice"

\* QString ordering of the identifiers (upper case sorts before lower case).
Rank(id) == CASE id = KeyA -> 1 [] id = KeyB -> 2 [] OTHER -> 3

RECURSIVE SortedInsert(_, _)
SortedInsert(x, s) ==
  IF s = <<>> THEN <<x>>
  ELSE IF Rank(x) <= Rank(Head(s)) THEN <<x>> \o s
  ELSE <<Head(s)>> \o SortedInsert(x, Tail(s))

\* QStringList::sort()
RECURSIVE Sort(_)
Sort(s) == IF s = <<>> THEN <<>> ELSE SortedInsert(Head(s), Sort(Tail(s)))

\* The long key id gpg encrypts for when given a recipient identifier.
KeyIdOf(id) == IF id = Alias THEN KeyA ELSE id

----------------------------------------------------------------------------
(* Paths *)

\* Store-relative entry names, as the UI passes them (no ".gpg").
Names == { <<"a">>, <<"sub", "/", "b">> }

\* Store-relative directories ("" and "sub").
RelDirs == { <<>>, <<"sub">> }

\* Values of QtPassSettings::getPassStore(): absolute, or relative to the cwd.
Stores == { <<"/s", "/">>, <<".", "/">> }

Sentinel == <<"Could not decrypt">>

Plains == { <<"pw">>, <<"pw", "\n">> }

RECURSIVE LastIndexOf(_, _)
LastIndexOf(s, t) ==
  IF s = <<>> THEN 0
  ELSE IF s[Len(s)] = t THEN Len(s)
  ELSE LastIndexOf(SubSeq(s, 1, Len(s) - 1), t)

\* Directory part of a store-relative entry name.
DirOf(rel) ==
  LET i == LastIndexOf(rel, "/") IN IF i = 0 THEN <<>> ELSE SubSeq(rel, 1, i - 1)

\* QFileInfo::path(): everything before the last "/".
FileInfoPath(file) ==
  LET i == LastIndexOf(file, "/") IN IF i = 0 THEN <<".">> ELSE SubSeq(file, 1, i - 1)

IsPrefix(p, s) == Len(p) <= Len(s) /\ SubSeq(s, 1, Len(p)) = p

\* QDir(store).relativeFilePath(file)
RelativeFilePath(store, file) ==
  IF IsPrefix(store, file) THEN SubSeq(file, Len(store) + 1, Len(file)) ELSE file

\* path.replace(QRegExp("\\.gpg$"), "")
StripGpg(path) ==
  IF path # <<>> /\ path[Len(path)] = ".gpg"
  THEN SubSeq(path, 1, Len(path) - 1) ELSE path

\* Store-relative path of a directory's declaration file.
DeclFile(dir) == IF dir = <<>> THEN <<".gpg-id">> ELSE dir \o <<"/", ".gpg-id">>

\* Whether store-relative path p lies in or under store-relative directory d.
Under(p, d) == d = <<>> \/ IsPrefix(d \o <<"/">>, p)

NoFile == [exists |-> FALSE, rcpt |-> <<>>, plain |-> <<>>]
NoDecl == [exists |-> FALSE, ids |-> <<>>]

----------------------------------------------------------------------------
VARIABLES
  passStore,  \* QtPassSettings::getPassStore()
  fs,         \* ciphertext files: Names -> [exists, rcpt, plain]
  decl,       \* declaration files (.gpg-id): RelDirs -> [exists, ids]
  tracked,    \* store-relative paths git knows
  dirty,      \* store-relative paths with changes git would commit
  history,    \* commits, oldest first: [msg, path]
  pushed,     \* number of commits a completed push has sent
  jobs,       \* asynchronous jobs dispatched and not yet finished
  issued,     \* jobs the latest handler dispatched, in dispatch order
  emitted,    \* signals the latest handler emitted
  lastOp,     \* the latest handler and its arguments
  ops,        \* handlers invoked so far
  pc,         \* position of the GUI thread
  wDir,       \* reencryptPath: its argument, a store-relative directory
  wOrder,     \* reencryptPath: the entries QDirIterator yields, in its order
  wIdx,       \* reencryptPath: index of the entry being handled
  gpgId,      \* reencryptPath: the declared recipients in use
  wPlain,     \* reencryptPath: local_lastDecrypt
  wRecips,    \* reencryptPath: recipients
  wGit,       \* reencryptPath: !isUseWebDav() && isUseGit()
  wPull,      \* reencryptPath: isAutoPull()
  wPush,      \* reencryptPath: isAutoPush()
  cmds        \* reencryptPath: blocking commands run by the latest walk

vars == << passStore, fs, decl, tracked, dirty, history, pushed, jobs, issued,
           emitted, lastOp, ops, pc, wDir, wOrder, wIdx, gpgId, wPlain,
           wRecips, wGit, wPull, wPush, cmds >>

storeVars == << fs, decl, tracked, dirty, history, pushed >>
walkVars == << wDir, wOrder, wIdx, gpgId, wPlain, wRecips, wGit, wPull, wPush,
              cmds >>

----------------------------------------------------------------------------
(* The external tools *)

\* Store-relative name of an entry given its ciphertext path.
EntryOf(store, file) == StripGpg(RelativeFilePath(store, file))

IsEntry(store, file) ==
  /\ IsPrefix(store, file)
  /\ file[Len(file)] = ".gpg"
  /\ EntryOf(store, file) \in Names

\* Pass::getRecipientList(file): the identifiers of the nearest declaration.
RECURSIVE ResolveDir(_, _)
ResolveDir(d, dir) ==
  IF d[dir].exists THEN d[dir].ids
  ELSE IF dir = <<>> THEN <<>>
  ELSE ResolveDir(d, DirOf(dir))

getRecipientList(d, store, file) == ResolveDir(d, DirOf(EntryOf(store, file)))

RECURSIVE SetToSeq(_)
SetToSeq(S) ==
  IF S = {} THEN <<>>
  ELSE LET x == CHOOSE y \in S : \A z \in S : Rank(y) >= Rank(z)
       IN <<x>> \o SetToSeq(S \ {x})

KeysOf(rcpt) == { KeyIdOf(rcpt[i]) : i \in DOMAIN rcpt }

RECURSIVE KeyLines(_)
KeyLines(ks) ==
  IF ks = <<>> THEN <<>>
  ELSE <<"gpg:", " ", "public", " ", "key", " ", "is", " ", Head(ks), "\n">>
       \o KeyLines(Tail(ks))

\* gpg -v --list-only --keyid-format=long: [out, err]
GpgListOnly(c) ==
  IF ~c.exists
  THEN [out |-> <<>>, err |-> <<"gpg:", " ", "can't", " ", "open", "\n">>]
  ELSE [out |-> <<>>,
        err |-> KeyLines(SetToSeq(KeysOf(c.rcpt)))
                \o <<"gpg:", " ", "encrypted", " ", "with", " ", "RSA", " ",
                     "key,", " ", "ID", " ", "0000000000000000", "\n">>]

\* gpg -d: what executeBlocking leaves in *process_out, per outcome.
GpgDecrypt(c, outcome, before) ==
  CASE outcome = "ok" -> c.plain
    [] outcome = "failed" -> <<>>
    [] OTHER -> before

DecryptOutcomes(c) == IF c.exists THEN {"ok", "failed", "crashed"}
                      ELSE {"failed", "crashed"}

\* gpg --batch -eq --output file (-r id)* [--yes] -
GpgEncrypt(f, store, file, rcpt, yes, input) ==
  IF IsEntry(store, file) /\ (yes \/ ~f[EntryOf(store, file)].exists)
  THEN [f EXCEPT ![EntryOf(store, file)] =
          [exists |-> TRUE, rcpt |-> rcpt, plain |-> input]]
  ELSE f

\* Whether that command writes its output file: without --yes, in batch
\* mode, gpg does not replace an existing file.
GpgWrites(f, store, file, yes) ==
  IsEntry(store, file) /\ (yes \/ ~f[EntryOf(store, file)].exists)

\* A write to a path git tracks is a change git would commit.
DirtyOnWrite(t, d, rel) == IF rel \in t THEN d \cup {rel} ELSE d

\* Whether a store-relative path names a file that is on disk.
OnDisk(f, d, rel) ==
  \/ \E n \in Names : rel = n \o <<".gpg">> /\ f[n].exists
  \/ \E dir \in RelDirs : rel = DeclFile(dir) /\ d[dir].exists

\* git commit -m msg -- path: one record if there is something to commit.
GitCommitHistory(h, d, msg, rel) ==
  IF \E p \in d : p = rel \/ Under(p, rel)
  THEN Append(h, [msg |-> msg, path |-> rel]) ELSE h

GitCommitDirty(d, rel) == { p \in d : ~(p = rel \/ Under(p, rel)) }

----------------------------------------------------------------------------
(* Recipient inspection: lines 272-286 of reencryptPath *)

\* QString::split(sep): the pieces between separators, empty ones included.
SplitOn(toks, sep) ==
  LET seps == { i \in DOMAIN toks : toks[i] = sep }
      n == Cardinality(seps)
      At(k) == IF k = 0 THEN 0
               ELSE IF k = n + 1 THEN Len(toks) + 1
               ELSE CHOOSE i \in seps : Cardinality({ j \in seps : j < i }) = k - 1
  IN [k \in 1..(n + 1) |-> SubSeq(toks, At(k - 1) + 1, At(k) - 1)]

\* The QString a piece of tokens spells.
RECURSIVE Join(_)
Join(toks) == IF toks = <<>> THEN "" ELSE Head(toks) \o Join(Tail(toks))

\* The long key id length the parse looks for.
KeyIdLength == 16

\* Mutant of LineKeys: the fourth field is taken instead of the fifth.
LineKeysFourth(current) ==
  LET cur == SplitOn(current, " ") IN
  IF Len(cur) > 3
  THEN LET actualKey == Join(cur[4]) IN
       IF Len(actualKey) = KeyIdLength THEN <<actualKey>> ELSE <<>>
  ELSE <<>>

\* One line of the inspection output: the key it names, if any.
LineKeys(current) ==
  LET cur == SplitOn(current, " ") IN
  IF Len(cur) > 4
  THEN LET actualKey == Join(cur[5]) IN
       IF Len(actualKey) = KeyIdLength THEN <<actualKey>> ELSE <<>>
  ELSE <<>>

RECURSIVE CollectKeys(_)
CollectKeys(key) ==
  IF key = <<>> THEN <<>> ELSE LineKeys(Head(key)) \o CollectKeys(Tail(key))

\* actualKeys after the sort, from the tool's [out, err].
ActualKeys(res) == Sort(CollectKeys(SplitOn(res.out \o res.err, "\n")))

----------------------------------------------------------------------------
(* Signals, commands, jobs *)

SigStart == "startReencryptPath"
SigEnd == "endReencryptPath"
CritCannotEdit == "critical: Can not edit"
CritCannotUpdate == "critical: Cannot update"
CritCheckUsers == "critical: Check selected users!"

\* A blocking command of the walk and what it returned: rcpt is the -r list
\* (encrypt) or the parsed key ids (inspect); text is the standard input
\* (encrypt) or the captured standard output (decrypt).
Cmd(c, file, rcpt, text, msg) ==
  [cmd |-> c, file |-> file, rcpt |-> rcpt, text |-> text, msg |-> msg]

Job(id, file, rcpt, flag, input, msg) ==
  [id |-> id, file |-> file, rcpt |-> rcpt, flag |-> flag, input |-> input,
   msg |-> msg]

\* A handler invocation: flag is overwrite (Insert), isDir (Remove) or addFile
\* (Init); git and webdav are isUseGit() and isUseWebDav(); qt5 is whether
\* the build has QT_VERSION >= 5.0.0; canOpen is whether gpgId.open() succeeds.
OpRec(op, arg, flag, git, webdav, qt5, canOpen, users) ==
  [op |-> op, arg |-> arg, flag |-> flag, git |-> git, webdav |-> webdav,
   qt5 |-> qt5, canOpen |-> canOpen, users |-> users]

\* QDir currentDir; it is never assigned, and its path() is ".".
CurrentDirPath == <<".">>

\* Ciphertext path of an entry.
FileName(rel) == passStore \o rel \o <<".gpg">>

Perms(S) ==
  { s \in [1..Cardinality(S) -> S] : \A i, j \in DOMAIN s : i # j => s[i] # s[j] }

\* verb + " for " + path + " using QtPass."
Msg(verb, path) == <<verb, " for ">> \o path \o <<" using QtPass.">>

----------------------------------------------------------------------------
(* reencryptPath *)

\* The UI asks for a re-encryption of a directory.
CallReencryptPath ==
  /\ pc = "idle"
  /\ jobs = <<>>
  /\ ops < MaxOps
  /\ \E dir \in RelDirs, git, webdav \in BOOLEAN :
       /\ wDir' = dir
       /\ lastOp' = OpRec("reencryptPath", dir, FALSE, git, webdav, TRUE, TRUE, <<>>)
  /\ ops' = ops + 1
  /\ emitted' = <<>>
  /\ issued' = <<>>
  /\ pc' = "begin"
  /\ UNCHANGED << passStore, storeVars, jobs, wOrder, wIdx, gpgId, wPlain,
                  wRecips, wGit, wPull, wPush, cmds >>

\* Mutant of GitPull_b: the asynchronous GitPull() is called instead, so the
\* walk goes on without a completed pull.
GitPull_bAsync(cs) == cs

\* GitPull_b(): lines 56-58, a blocking command.
GitPull_b(cs) == Append(cs, Cmd("pull", <<>>, <<>>, <<>>, <<>>))

\* Lines 248-259: the start signal, the blocking pull, the iterator.
WalkBegin ==
  /\ pc = "begin"
  /\ \E autoPull, autoPush \in BOOLEAN :
       /\ cmds' = IF autoPull THEN GitPull_b(<<>>) ELSE <<>>
       /\ wPull' = autoPull
       /\ wPush' = autoPush
  /\ \E order \in Perms({ n \in Names : fs[n].exists /\ Under(n, wDir) }) :
       wOrder' = order
  /\ emitted' = Append(emitted, SigStart)
  /\ wGit' = (~lastOp.webdav /\ lastOp.git)
  /\ wIdx' = 1
  /\ gpgId' = <<>>
  /\ wPlain' = <<>>
  /\ wRecips' = <<>>
  /\ pc' = "loop"
  /\ UNCHANGED << passStore, storeVars, jobs, issued, lastOp, ops, wDir >>

\* gpgFiles.next() at line 261: the walk moves on to the following entry.
NextEntry(i) == i + 1

\* gpgId after lines 262-265 for an entry.
LoadGpgId(file) ==
  IF FileInfoPath(file) # CurrentDirPath
  THEN Sort(getRecipientList(decl, passStore, file)) ELSE gpgId

\* Lines 260-293: reload the declaration, inspect, compare.
WalkInspect ==
  /\ pc = "loop"
  /\ wIdx <= Len(wOrder)
  /\ LET fileName == FileName(wOrder[wIdx])
         loaded == LoadGpgId(fileName)
         res == GpgListOnly(fs[wOrder[wIdx]])
         actualKeys == ActualKeys(res)
     IN /\ gpgId' = loaded
        /\ cmds' = Append(cmds, Cmd("inspect", fileName, actualKeys,
                                    res.out \o res.err, <<>>))
        /\ IF actualKeys # loaded
           THEN /\ wPlain' = Sentinel
                /\ pc' = "decrypt"
                /\ wIdx' = wIdx
           ELSE /\ wPlain' = wPlain
                /\ pc' = "loop"
                /\ wIdx' = NextEntry(wIdx)
  /\ UNCHANGED << passStore, storeVars, jobs, issued, emitted, lastOp, ops,
                  wDir, wOrder, wRecips, wGit, wPull, wPush >>

\* Mutant of Normalize: a final line terminator is removed from the text.
NormalizeChomp(text) ==
  IF text # <<>> /\ text[Len(text)] = "\n"
  THEN SubSeq(text, 1, Len(text) - 1) ELSE text

\* Mutant of Normalize: a line terminator is appended to every text.
NormalizeAlways(text) == text \o <<"\n">>

\* Lines 300-301: one line terminator is appended when the text has none.
Normalize(text) ==
  IF text = <<>> \/ text[Len(text)] # "\n" THEN text \o <<"\n">> ELSE text

\* Mutant of DecryptNext: a missing declaration skips the entry only.
DecryptNextSkip(local_lastDecrypt, recipients) ==
  IF local_lastDecrypt # <<>> /\ local_lastDecrypt # Sentinel /\ recipients # <<>>
  THEN "encrypt" ELSE "loop"

\* Lines 298-310 and 331-333: where the walk goes after a decryption.
DecryptNext(local_lastDecrypt, recipients) ==
  IF local_lastDecrypt # <<>> /\ local_lastDecrypt # Sentinel
  THEN IF recipients = <<>> THEN "idle" ELSE "encrypt"
  ELSE "loop"

\* Mutant of ReencryptRecipients: the list loaded for the drift check is
\* reused instead of resolving the entry's declaration again.
ReencryptRecipientsReused(file) == gpgId

\* Line 304: the recipients the entry is re-encrypted for.
ReencryptRecipients(file) == getRecipientList(decl, passStore, file)

\* Lines 294-316 and 331-333: decrypt, classify, normalise, re-resolve.
WalkDecrypt ==
  /\ pc = "decrypt"
  /\ LET fileName == FileName(wOrder[wIdx]) IN
     \E outcome \in DecryptOutcomes(fs[wOrder[wIdx]]) :
       LET local_lastDecrypt == GpgDecrypt(fs[wOrder[wIdx]], outcome, wPlain)
           recipients == ReencryptRecipients(fileName)
           next == DecryptNext(local_lastDecrypt, recipients)
       IN /\ cmds' = Append(cmds, Cmd("decrypt", fileName, <<>>,
                                      local_lastDecrypt, <<>>))
          /\ pc' = next
          /\ IF local_lastDecrypt # <<>> /\ local_lastDecrypt # Sentinel
             THEN /\ wPlain' = Normalize(local_lastDecrypt)
                  /\ wRecips' = recipients
                  /\ emitted' = IF recipients = <<>>
                                THEN Append(emitted, CritCannotEdit)
                                ELSE emitted
                  /\ wIdx' = IF next = "loop" THEN NextEntry(wIdx) ELSE wIdx
             ELSE /\ wPlain' = local_lastDecrypt
                  /\ wRecips' = wRecips
                  /\ emitted' = emitted
                  /\ wIdx' = NextEntry(wIdx)
  /\ UNCHANGED << passStore, storeVars, jobs, issued, lastOp, ops, wDir,
                  wOrder, gpgId, wGit, wPull, wPush >>

\* Lines 317-320: the blocking encrypt with overwrite.
WalkEncrypt ==
  /\ pc = "encrypt"
  /\ LET fileName == FileName(wOrder[wIdx]) IN
       /\ cmds' = Append(cmds, Cmd("encrypt", fileName, wRecips, wPlain, <<>>))
       /\ fs' = GpgEncrypt(fs, passStore, fileName, wRecips, TRUE, wPlain)
       /\ dirty' = DirtyOnWrite(tracked, dirty,
                                RelativeFilePath(passStore, fileName))
  /\ IF wGit THEN pc' = "stage" /\ wIdx' = wIdx
     ELSE pc' = "loop" /\ wIdx' = NextEntry(wIdx)
  /\ UNCHANGED << passStore, decl, tracked, history, pushed, jobs, issued,
                  emitted, lastOp, ops, wDir, wOrder, gpgId, wPlain, wRecips,
                  wGit, wPull, wPush >>

\* git add path
GitAddTracked(t, f, d, rel) == IF OnDisk(f, d, rel) THEN t \cup {rel} ELSE t
GitAddDirty(t, dt, f, d, rel) ==
  IF OnDisk(f, d, rel) /\ rel \notin t THEN dt \cup {rel} ELSE dt

\* Lines 321-322: the blocking git add.
WalkStage ==
  /\ pc = "stage"
  /\ LET fileName == FileName(wOrder[wIdx])
         rel == RelativeFilePath(passStore, fileName)
     IN /\ cmds' = Append(cmds, Cmd("add", fileName, <<>>, <<>>, <<>>))
        /\ tracked' = GitAddTracked(tracked, fs, decl, rel)
        /\ dirty' = GitAddDirty(tracked, dirty, fs, decl, rel)
  /\ pc' = "commit"
  /\ UNCHANGED << passStore, fs, decl, history, pushed, jobs, issued, emitted,
                  lastOp, ops, wDir, wOrder, wIdx, gpgId, wPlain, wRecips,
                  wGit, wPull, wPush >>

\* Lines 323-328: the commit message and the blocking git commit.
WalkCommit ==
  /\ pc = "commit"
  /\ LET fileName == FileName(wOrder[wIdx])
         rel == RelativeFilePath(passStore, fileName)
         path == StripGpg(RelativeFilePath(passStore, fileName))
     IN /\ cmds' = Append(cmds, Cmd("commit", fileName, <<>>, <<>>, Msg("Edit", path)))
        /\ history' = GitCommitHistory(history, dirty, Msg("Edit", path), rel)
        /\ dirty' = GitCommitDirty(dirty, rel)
  /\ pc' = "loop"
  /\ wIdx' = NextEntry(wIdx)
  /\ UNCHANGED << passStore, fs, decl, tracked, pushed, jobs, issued, emitted,
                  lastOp, ops, wDir, wOrder, gpgId, wPlain, wRecips, wGit,
                  wPull, wPush >>

\* Mutant of GitPush: the push is run to completion inside the walk.
GitPushBlocking(js) == js

\* GitPush(): lines 63-65, an asynchronous job.
GitPush(js) == Append(js, Job("GIT_PUSH", <<>>, <<>>, FALSE, <<>>, <<>>))

\* Lines 336-340: the push and the end signal.
WalkEnd ==
  /\ pc = "loop"
  /\ wIdx > Len(wOrder)
  /\ IF wPush
     THEN /\ jobs' = GitPush(jobs)
          /\ issued' = GitPush(issued)
     ELSE UNCHANGED << jobs, issued >>
  /\ emitted' = Append(emitted, SigEnd)
  /\ pc' = "idle"
  /\ UNCHANGED << passStore, storeVars, lastOp, ops, walkVars >>

----------------------------------------------------------------------------
(* Asynchronous dispatch *)

\* GitCommit(file, msg): lines 134-137.
GitCommit(js, file, msg) ==
  Append(js, Job("GIT_COMMIT", file, <<>>, FALSE, <<>>, msg))

RemoveAt(s, i) == SubSeq(s, 1, i - 1) \o SubSeq(s, i + 1, Len(s))

\* The tracked paths a git rm of a store-relative path removes.
GitRmPaths(t, rel, recursive) ==
  { p \in t : p = rel \/ (recursive /\ Under(p, rel)) }

\* The files left after the store-relative paths in R are deleted.
FsWithout(f, R) ==
  [n \in Names |-> IF (n \o <<".gpg">>) \in R THEN NoFile ELSE f[n]]
DeclWithout(d, R) ==
  [dir \in RelDirs |-> IF DeclFile(dir) \in R THEN NoDecl ELSE d[dir]]

\* An external process started by exec.execute() finishes; its effect on the
\* store is that of its command line.
JobFinish ==
  \E i \in 1..Len(jobs) :
    LET j == jobs[i]
        rel == RelativeFilePath(passStore, j.file)
    IN /\ jobs' = RemoveAt(jobs, i)
       /\ CASE j.id = "PASS_INSERT" ->
                 /\ fs' = GpgEncrypt(fs, passStore, j.file, j.rcpt, j.flag, j.input)
                 /\ dirty' = IF GpgWrites(fs, passStore, j.file, j.flag)
                             THEN DirtyOnWrite(tracked, dirty, rel)
                             ELSE dirty
                 /\ UNCHANGED << decl, tracked, history, pushed >>
            [] j.id = "GIT_ADD" ->
                 /\ tracked' = GitAddTracked(tracked, fs, decl, rel)
                 /\ dirty' = GitAddDirty(tracked, dirty, fs, decl, rel)
                 /\ UNCHANGED << fs, decl, history, pushed >>
            [] j.id = "GIT_COMMIT" ->
                 /\ history' = GitCommitHistory(history, dirty, j.msg, rel)
                 /\ dirty' = GitCommitDirty(dirty, rel)
                 /\ UNCHANGED << fs, decl, tracked, pushed >>
            [] j.id = "GIT_RM" ->
                 LET R == GitRmPaths(tracked, rel, j.flag) IN
                 /\ fs' = FsWithout(fs, R)
                 /\ decl' = DeclWithout(decl, R)
                 /\ tracked' = tracked \ R
                 /\ dirty' = dirty \cup R
                 /\ UNCHANGED << history, pushed >>
            [] OTHER ->
                 /\ pushed' = Len(history)
                 /\ UNCHANGED << fs, decl, tracked, dirty, history >>
       /\ UNCHANGED << passStore, issued, emitted, lastOp, ops, pc, walkVars >>

----------------------------------------------------------------------------
(* Insert: lines 96-126 *)

\* Mutant of InsertJobs: the check for an empty recipient list is missing.
InsertJobsUnchecked(store, recipients, file, newValue, overwrite, git, webdav) ==
  LET path == StripGpg(RelativeFilePath(store, file))
      msg == Msg(IF overwrite THEN "Edit" ELSE "\"Add", path)
      j1 == << Job("PASS_INSERT", file, recipients, overwrite, newValue, <<>>) >>
      j2 == IF ~overwrite
            THEN Append(j1, Job("GIT_ADD", file, <<>>, FALSE, <<>>, <<>>))
            ELSE j1
  IN IF ~webdav /\ git THEN GitCommit(j2, file, msg) ELSE j1

\* Mutant of InsertJobs: the file is staged when overwriting too.
InsertJobsStaged(store, recipients, file, newValue, overwrite, git, webdav) ==
  LET path == StripGpg(RelativeFilePath(store, file))
      msg == Msg(IF overwrite THEN "Edit" ELSE "\"Add", path)
      j1 == << Job("PASS_INSERT", file, recipients, overwrite, newValue, <<>>) >>
      j2 == Append(j1, Job("GIT_ADD", file, <<>>, FALSE, <<>>, <<>>))
  IN IF recipients = <<>> THEN <<>>
     ELSE IF ~webdav /\ git THEN GitCommit(j2, file, msg) ELSE j1

\* The jobs Insert dispatches, in order (lines 99-125).
InsertJobs(store, recipients, file, newValue, overwrite, git, webdav) ==
  LET path == StripGpg(RelativeFilePath(store, file))
      msg == Msg(IF overwrite THEN "Edit" ELSE "\"Add", path)
      j1 == << Job("PASS_INSERT", file, recipients, overwrite, newValue, <<>>) >>
      j2 == IF ~overwrite
            THEN Append(j1, Job("GIT_ADD", file, <<>>, FALSE, <<>>, <<>>))
            ELSE j1
  IN IF recipients = <<>> THEN <<>>
     ELSE IF ~webdav /\ git THEN GitCommit(j2, file, msg) ELSE j1

Insert ==
  /\ pc = "idle"
  /\ jobs = <<>>
  /\ ops < MaxOps
  /\ \E name \in Names, newValue \in Plains, overwrite, git, webdav \in BOOLEAN :
       LET file == passStore \o name \o <<".gpg">>
           recipients == getRecipientList(decl, passStore, file)
           new == InsertJobs(passStore, recipients, file, newValue, overwrite,
                             git, webdav)
       IN /\ lastOp' = OpRec("Insert", name, overwrite, git, webdav, TRUE, TRUE, <<>>)
          /\ emitted' = IF recipients = <<>> THEN << CritCannotEdit >> ELSE <<>>
          /\ issued' = new
          /\ jobs' = jobs \o new
  /\ ops' = ops + 1
  /\ UNCHANGED << passStore, storeVars, pc, walkVars >>

----------------------------------------------------------------------------
(* Remove: lines 142-163, and removeDir: lines 219-239 *)

\* The path with its "." components dropped.
RECURSIVE DropDots(_)
DropDots(path) ==
  IF path = <<>> THEN <<>>
  ELSE IF Len(path) >= 2 /\ path[1] = "." /\ path[2] = "/"
       THEN DropDots(SubSeq(path, 3, Len(path)))
  ELSE <<Head(path)>> \o DropDots(Tail(path))

IsAbsolute(path) == path # <<>> /\ path[1] = "/s"

\* The store-relative path a file-system path denotes (the cwd is the store
\* when the store path is relative).
Denotes(store, path) ==
  IF IsAbsolute(store) THEN RelativeFilePath(store, path) ELSE DropDots(path)

\* Whether a store-relative path is a directory on disk.
IsDirOnDisk(f, d, rel) ==
  /\ rel \in RelDirs
  /\ \/ d[rel].exists
     \/ \E n \in Names : f[n].exists /\ Under(n, rel)

\* Every store-relative path in or under a directory.
PathsUnder(rel) ==
  { n \o <<".gpg">> : n \in { m \in Names : Under(m, rel) } }
    \cup { DeclFile(dir) : dir \in { e \in RelDirs : e = rel \/ Under(e, rel) } }

\* QDir(dirName).exists(dirName): a relative name is looked up inside the
\* directory itself.
QDirExists(f, d, store, dirName) ==
  LET target == IF IsAbsolute(dirName) THEN dirName
                ELSE dirName \o <<"/">> \o dirName
  IN IsDirOnDisk(f, d, Denotes(store, target))

\* removeDir(dirName): the paths it deletes.
removeDir(f, d, store, dirName) ==
  IF QDirExists(f, d, store, dirName)
  THEN PathsUnder(Denotes(store, dirName)) ELSE {}

\* QDir(file).removeRecursively(): the paths it deletes.
removeRecursively(f, d, store, file) ==
  IF IsDirOnDisk(f, d, Denotes(store, file))
  THEN PathsUnder(Denotes(store, file)) ELSE {}

\* The paths Remove deletes from the file system itself (lines 153-161).
RemoveDirect(f, d, store, file, isDir, qt5) ==
  IF isDir
  THEN IF qt5 THEN removeRecursively(f, d, store, file)
       ELSE removeDir(f, d, store, store \o file)
  ELSE { Denotes(store, file) }

\* The jobs Remove dispatches (lines 147-151).
RemoveJobs(file, isDir) ==
  GitCommit(<< Job("GIT_RM", file, <<>>, isDir, <<>>, <<>>) >>, file,
            Msg("Remove", file))

Remove ==
  /\ pc = "idle"
  /\ jobs = <<>>
  /\ ops < MaxOps
  /\ \E arg \in Names \cup (RelDirs \ {<<>>}), git, webdav, qt5 \in BOOLEAN :
       LET isDir == arg \in RelDirs
           file == IF ~isDir THEN passStore \o arg \o <<".gpg">>
                   ELSE passStore \o arg
       IN /\ lastOp' = OpRec("Remove", arg, isDir, git, webdav, qt5, TRUE, <<>>)
          /\ IF git
             THEN /\ issued' = RemoveJobs(file, isDir)
                  /\ jobs' = jobs \o RemoveJobs(file, isDir)
                  /\ UNCHANGED << fs, decl, dirty >>
             ELSE LET R == RemoveDirect(fs, decl, passStore, file, isDir, qt5) IN
                  /\ fs' = FsWithout(fs, R)
                  /\ decl' = DeclWithout(decl, R)
                  /\ dirty' = dirty \cup (R \cap tracked)
                  /\ issued' = <<>>
                  /\ jobs' = jobs
  /\ emitted' = <<>>
  /\ ops' = ops + 1
  /\ UNCHANGED << passStore, tracked, history, pushed, pc, walkVars >>

----------------------------------------------------------------------------
(* Init: lines 172-212 *)

\* The candidate recipients the users dialog passes.
User(k, e, s) == [key_id |-> k, enabled |-> e, have_secret |-> s]
UserLists ==
  { << User(KeyA, TRUE, TRUE), User(KeyB, TRUE, FALSE) >>,
    << User(KeyA, FALSE, TRUE), User(KeyB, TRUE, TRUE) >>,
    << User(KeyA, TRUE, FALSE), User(KeyB, FALSE, TRUE) >>,
    << User(KeyA, FALSE, TRUE), User(KeyB, FALSE, TRUE) >> }

\* Mutant of EnabledIds: every user's identifier is written.
EnabledIdsAll(users) == [i \in DOMAIN users |-> users[i].key_id]

\* Lines 187-192: the identifiers written, in the order of the list.
RECURSIVE EnabledIds(_)
EnabledIds(users) ==
  IF users = <<>> THEN <<>>
  ELSE (IF Head(users).enabled THEN << Head(users).key_id >> ELSE <<>>)
       \o EnabledIds(Tail(users))

\* Mutant of SecretSelected: a disabled user's secret key counts too.
SecretSelectedAny(users) == \E i \in DOMAIN users : users[i].have_secret

\* Lines 186-192: secret_selected.
SecretSelected(users) ==
  \E i \in DOMAIN users : users[i].enabled /\ users[i].have_secret

\* "Added " + path + " using QtPass."
AddedMsg(path) == <<"Added", " ">> \o path \o <<" using QtPass.">>

\* Lines 202-210: the jobs dispatched for the declaration file.
InitJobs(gpgIdFile, addFile) ==
  GitCommit(IF addFile
            THEN << Job("GIT_ADD", gpgIdFile, <<>>, FALSE, <<>>, <<>>) >>
            ELSE <<>>,
            gpgIdFile, AddedMsg(StripGpg(gpgIdFile)))

Init ==
  /\ pc = "idle"
  /\ jobs = <<>>
  /\ ops < MaxOps
  /\ \E dir \in RelDirs, users \in UserLists,
        addGPGId, canOpen, git, webdav, gitExe \in BOOLEAN :
       LET path == IF dir = <<>> THEN passStore ELSE passStore \o dir \o <<"/">>
           gpgIdFile == path \o <<".gpg-id">>
           addFile == addGPGId /\ ~decl[dir].exists
           new == InitJobs(gpgIdFile, addFile)
           vc == ~webdav /\ git /\ gitExe
       IN /\ lastOp' = OpRec("Init", dir, addFile, git, webdav, TRUE, canOpen, users)
          /\ IF ~canOpen
             THEN /\ emitted' = << CritCannotUpdate >>
                  /\ UNCHANGED << decl, dirty, jobs, pc, wDir >>
                  /\ issued' = <<>>
             ELSE /\ decl' = [decl EXCEPT ![dir] =
                                [exists |-> TRUE, ids |-> EnabledIds(users)]]
                  /\ dirty' = IF decl'[dir] # decl[dir]
                              THEN DirtyOnWrite(tracked, dirty, DeclFile(dir))
                              ELSE dirty
                  /\ IF ~SecretSelected(users)
                     THEN /\ emitted' = << CritCheckUsers >>
                          /\ issued' = <<>>
                          /\ UNCHANGED << jobs, pc, wDir >>
                     ELSE /\ emitted' = <<>>
                          /\ IF vc
                             THEN /\ issued' = new
                                  /\ jobs' = jobs \o new
                             ELSE /\ issued' = <<>>
                                  /\ jobs' = jobs
                          /\ wDir' = dir
                          /\ pc' = "begin"
  /\ ops' = ops + 1
  /\ UNCHANGED << passStore, fs, tracked, history, pushed, wOrder, wIdx, gpgId,
                  wPlain, wRecips, wGit, wPull, wPush, cmds >>

----------------------------------------------------------------------------
(* The system *)

\* The stores the program may find on disk when it starts.
InitFiles == { NoFile,
               [exists |-> TRUE, rcpt |-> <<KeyA>>, plain |-> <<"pw">>],
               [exists |-> TRUE, rcpt |-> <<KeyB>>, plain |-> <<"pw", "\n">>],
               [exists |-> TRUE, rcpt |-> <<KeyA>>,
                plain |-> <<"pw", "\n", "\n">>] }
InitDecls == { NoDecl }
  \cup { [exists |-> TRUE, ids |-> i] : i \in { <<KeyA>>, <<KeyB, KeyA>>, <<Alias>> } }

Start ==
  /\ passStore \in Stores
  /\ fs \in [Names -> InitFiles]
  /\ decl \in [RelDirs -> InitDecls]
  /\ tracked = { p \in PathsUnder(<<>>) : OnDisk(fs, decl, p) }
  /\ dirty = {}
  /\ history = <<>>
  /\ pushed = 0
  /\ jobs = <<>>
  /\ issued = <<>>
  /\ emitted = <<>>
  /\ lastOp = OpRec("none", <<>>, FALSE, FALSE, FALSE, TRUE, TRUE, <<>>)
  /\ ops = 0
  /\ pc = "idle"
  /\ wDir = <<>>
  /\ wOrder = <<>>
  /\ wIdx = 1
  /\ gpgId = <<>>
  /\ wPlain = <<>>
  /\ wRecips = <<>>
  /\ wGit = FALSE
  /\ wPull = FALSE
  /\ wPush = FALSE
  /\ cmds = <<>>

Next ==
  \/ Insert
  \/ Remove
  \/ Init
  \/ CallReencryptPath
  \/ WalkBegin
  \/ WalkInspect
  \/ WalkDecrypt
  \/ WalkEncrypt
  \/ WalkStage
  \/ WalkCommit
  \/ WalkEnd
  \/ JobFinish

Spec == Start /\ [][Next]_vars

----------------------------------------------------------------------------
(* A walk followed at once by a second walk of the same directory *)

MaxAgain == 1

\* Declarations as users write them: also one that names a key twice.
AgainDecls ==
  InitDecls \cup { [exists |-> TRUE, ids |-> << KeyA, KeyA >>] }

StartAgain ==
  /\ passStore \in Stores
  /\ fs \in [Names -> InitFiles]
  /\ decl \in [RelDirs -> AgainDecls]
  /\ tracked = { p \in PathsUnder(<<>>) : OnDisk(fs, decl, p) }
  /\ dirty = {}
  /\ history = <<>>
  /\ pushed = 0
  /\ jobs = <<>>
  /\ issued = <<>>
  /\ emitted = <<>>
  /\ lastOp = OpRec("none", <<>>, FALSE, FALSE, FALSE, TRUE, TRUE, <<>>)
  /\ ops = 0
  /\ pc = "idle"
  /\ wDir = <<>>
  /\ wOrder = <<>>
  /\ wIdx = 1
  /\ gpgId = <<>>
  /\ wPlain = <<>>
  /\ wRecips = <<>>
  /\ wGit = FALSE
  /\ wPull = FALSE
  /\ wPush = FALSE
  /\ cmds = <<>>

\* Whether the walk that has returned reached its end with every decryption
\* it ran having succeeded.
WalkSucceeded ==
  /\ SigEnd \in { emitted[i] : i \in DOMAIN emitted }
  /\ \A i \in DOMAIN cmds :
       cmds[i].cmd = "decrypt" =>
         (cmds[i].text # <<>> /\ cmds[i].text # Sentinel)

\* The UI asks for the same directory again, under the same settings, right
\* after a walk that succeeded (the record's flag marks the repetition).
CallReencryptPathAgain ==
  /\ pc = "idle"
  /\ jobs = <<>>
  /\ lastOp.op = "reencryptPath"
  /\ ~lastOp.flag
  /\ WalkSucceeded
  /\ ops < MaxOps + MaxAgain
  /\ lastOp' = [lastOp EXCEPT !.flag = TRUE]
  /\ ops' = ops + 1
  /\ emitted' = <<>>
  /\ issued' = <<>>
  /\ pc' = "begin"
  /\ UNCHANGED << passStore, storeVars, jobs, walkVars >>

NextAgain ==
  \/ CallReencryptPath
  \/ CallReencryptPathAgain
  \/ WalkBegin
  \/ WalkInspect
  \/ WalkDecrypt
  \/ WalkEncrypt
  \/ WalkStage
  \/ WalkCommit
  \/ WalkEnd
  \/ JobFinish

SpecAgain == StartAgain /\ [][NextAgain]_vars

----------------------------------------------------------------------------
(* Lines 270-286 on any output of the inspection command *)

MaxInspect == 1

\* Lines the inspection command may print.
OutputLines ==
  { <<"gpg:", " ", "public", " ", "key", " ", "is", " ", KeyA>>,
    <<"gpg:", " ", "public", " ", "key", " ", "is", " ", KeyB>>,
    <<"gpg:", " ", "public", " ", " ", "key", " ", "is", " ", KeyB>>,
    <<"gpg:", " ", "key", " ", "is", " ", KeyA>>,
    <<"gpg:", " ", "using", " ", "subkey", " ", KeyB, " ", "instead">>,
    <<"gpg:", " ", "encrypted", " ", "with", " ", "RSA", " ", "key,", " ",
      "ID", " ", KeyA>>,
    <<"gpg:", " ", "public", " ", "key", " ", "is", " ", "0xAAAAAAAAAAAAAAAA">>,
    <<"a", " ", "b", " ", "c", " ", "d", " ", KeyB, " ", "e">>,
    <<>> }

\* What the command leaves in keys or in err: no line, one line, two lines,
\* the last of them with or without its line terminator.
OutputTexts ==
  { <<>> }
    \cup { l \o t : l \in OutputLines, t \in { <<>>, <<"\n">> } }
    \cup { <<"gpg:", " ", "public", " ", "key", " ", "is", " ", KeyB, "\n">> \o l
             \o <<"\n">> : l \in OutputLines }

InspectStart ==
  /\ passStore = <<"/s", "/">>
  /\ fs = [n \in Names |-> NoFile]
  /\ decl = [d \in RelDirs |-> NoDecl]
  /\ tracked = {}
  /\ dirty = {}
  /\ history = <<>>
  /\ pushed = 0
  /\ jobs = <<>>
  /\ issued = <<>>
  /\ emitted = <<>>
  /\ lastOp = OpRec("none", <<>>, FALSE, FALSE, FALSE, TRUE, TRUE, <<>>)
  /\ ops = 0
  /\ pc = "loop"
  /\ wDir = <<>>
  /\ wOrder = <<>>
  /\ wIdx = 1
  /\ gpgId = <<>>
  /\ wPlain = <<>>
  /\ wRecips = <<>>
  /\ wGit = FALSE
  /\ wPull = FALSE
  /\ wPush = FALSE
  /\ cmds = <<>>

\* Lines 271-286 for one run of the inspection command.
InspectOutput ==
  /\ Len(cmds) < MaxInspect
  /\ \E keys \in OutputTexts, err \in OutputTexts :
       cmds' = Append(cmds, Cmd("inspect", <<>>,
                                ActualKeys([out |-> keys, err |-> err]),
                                keys \o err, <<>>))
  /\ UNCHANGED << passStore, storeVars, jobs, issued, emitted, lastOp, ops, pc,
                  wDir, wOrder, wIdx, gpgId, wPlain, wRecips, wGit, wPull,
                  wPush >>

SpecInspect == InspectStart /\ [][InspectOutput]_vars

----------------------------------------------------------------------------
(* Properties *)

Range(s) == { s[i] : i \in DOMAIN s }

\* The walk is between its first and its last step.
Walking == pc \in {"loop", "decrypt", "encrypt", "stage", "commit"}

\* The latest handler ran a walk, and the walk has returned.
WalkDone == pc = "idle" /\ SigStart \in Range(emitted)

\* cmds is the log of the walk the latest handler ran.
LogValid == Walking \/ WalkDone

Declared(file) == getRecipientList(decl, passStore, file)

Logged(c, file) == \E i \in DOMAIN cmds : cmds[i].cmd = c /\ cmds[i].file = file

\* The walk found the entry's parsed recipients to differ from its own
\* sorted declaration.
Drifted(file) ==
  \E i \in DOMAIN cmds :
    /\ cmds[i].cmd = "inspect" /\ cmds[i].file = file
    /\ cmds[i].rcpt # Sort(Declared(file))

DecryptOk(file) ==
  \E i \in DOMAIN cmds :
    /\ cmds[i].cmd = "decrypt" /\ cmds[i].file = file
    /\ cmds[i].text # <<>> /\ cmds[i].text # Sentinel

DecryptFailed(file) ==
  \E i \in DOMAIN cmds :
    /\ cmds[i].cmd = "decrypt" /\ cmds[i].file = file
    /\ (cmds[i].text = <<>> \/ cmds[i].text = Sentinel)

EditCommits(file) ==
  { i \in DOMAIN cmds :
      /\ cmds[i].cmd = "commit" /\ cmds[i].file = file
      /\ cmds[i].msg = Msg("Edit", EntryOf(passStore, file)) }

\* The entry is encrypted for exactly its declared recipients and, with
\* version control in use, the walk committed it once.
DriftCorrected(file) ==
  /\ fs[EntryOf(passStore, file)].exists
  /\ Range(fs[EntryOf(passStore, file)].rcpt) = Range(Declared(file))
  /\ wGit => Cardinality(EditCommits(file)) = 1

WalkFiles == { FileName(wOrder[k]) : k \in DOMAIN wOrder }

C2_ConvergedUntouched ==
  LogValid =>
    \A i \in DOMAIN cmds :
      (cmds[i].cmd = "inspect" /\ cmds[i].rcpt = Sort(Declared(cmds[i].file)))
        => \A k \in DOMAIN cmds :
             cmds[k].file = cmds[i].file => cmds[k].cmd = "inspect"

\* C3 as stated: after a walk in which the decryption of entry k failed, no
\* encrypt, stage or commit was issued for entry k, and every later entry was
\* inspected and, if drifted, decrypted and (when that succeeded) encrypted.
C3_FaultIsolation ==
  WalkDone =>
    \A k \in DOMAIN wOrder :
      DecryptFailed(FileName(wOrder[k])) =>
        /\ ~Logged("encrypt", FileName(wOrder[k]))
        /\ ~Logged("add", FileName(wOrder[k]))
        /\ ~Logged("commit", FileName(wOrder[k]))
        /\ \A m \in (k + 1)..Len(wOrder) :
             LET f == FileName(wOrder[m]) IN
             /\ Logged("inspect", f)
             /\ Drifted(f) => /\ Logged("decrypt", f)
                              /\ DecryptOk(f) => Logged("encrypt", f)

\* C4: an Insert for which the recipient list resolves to empty dispatches no
\* job, emits the "Can not edit" critical error, and changes neither the
\* store nor the version history.
C4_InsertNoRecipients ==
  [][ ( /\ ops' = ops + 1
        /\ lastOp'.op = "Insert"
        /\ Declared(FileName(lastOp'.arg)) = <<>> )
      => ( /\ jobs' = jobs
           /\ issued' = <<>>
           /\ emitted' = << CritCannotEdit >>
           /\ UNCHANGED storeVars ) ]_vars

C4_Witness ==
  /\ lastOp.op = "Insert"
  /\ Declared(FileName(lastOp.arg)) = <<>>
  /\ emitted = << CritCannotEdit >>
  /\ jobs = <<>>

\* C5: an Init whose list has no enabled user with a secret key, and which
\* could open the declaration file, leaves the declaration written (the
\* enabled identifiers), emits the "Check selected users!" critical error,
\* dispatches no job and starts no walk.
C5_InitNoSecretKey ==
  ( /\ lastOp.op = "Init"
    /\ lastOp.canOpen
    /\ \A i \in DOMAIN lastOp.users :
         ~(lastOp.users[i].enabled /\ lastOp.users[i].have_secret) )
  => ( /\ decl[lastOp.arg] = [exists |-> TRUE, ids |-> EnabledIds(lastOp.users)]
       /\ emitted = << CritCheckUsers >>
       /\ issued = <<>>
       /\ jobs = <<>>
       /\ pc = "idle" )

C5_Witness ==
  /\ lastOp.op = "Init"
  /\ emitted = << CritCheckUsers >>
  /\ decl[lastOp.arg].exists
  /\ decl[lastOp.arg].ids = << KeyA >>
  /\ \E i \in DOMAIN lastOp.users :
       ~lastOp.users[i].enabled /\ lastOp.users[i].have_secret

\* C6: when a drifted entry was decrypted and its declared recipient list
\* resolves to empty, that decrypt is the last command of the walk: the walk
\* has returned with the "Can not edit" critical error, no end signal and no
\* push, and the entry has not been encrypted.
C6_MissingDeclarationAborts ==
  LogValid =>
    \A i \in DOMAIN cmds :
      ( /\ cmds[i].cmd = "decrypt"
        /\ cmds[i].text # <<>> /\ cmds[i].text # Sentinel
        /\ Declared(cmds[i].file) = <<>> )
      => ( /\ i = Len(cmds)
           /\ pc = "idle"
           /\ CritCannotEdit \in Range(emitted)
           /\ SigEnd \notin Range(emitted)
           /\ \A j \in Range(issued) \cup Range(jobs) : j.id # "GIT_PUSH" )

C6_Witness ==
  /\ WalkDone
  /\ CritCannotEdit \in Range(emitted)
  /\ wPush
  /\ wIdx < Len(wOrder)
  /\ cmds[Len(cmds)].cmd = "decrypt"

StepRank(c) ==
  CASE c = "inspect" -> 1 [] c = "decrypt" -> 2 [] c = "encrypt" -> 3
    [] c = "add" -> 4 [] c = "commit" -> 5 [] OTHER -> 0

Pos(file) == CHOOSE k \in DOMAIN wOrder : FileName(wOrder[k]) = file

\* C7: the commands of a walk are blocking and totally ordered: the pull,
\* when enabled, comes first; each decrypt, encrypt, stage and commit follows
\* directly the previous step of the same entry; an inspect is either the
\* first entry's or follows the last step of the entry before; and no job is
\* dispatched asynchronously while the walk is on its entries.
C7_SequentialWalk ==
  LogValid =>
    /\ wPull => (cmds # <<>> /\ cmds[1].cmd = "pull")
    /\ \A i \in DOMAIN cmds :
         /\ cmds[i].cmd = "pull" => i = 1
         /\ StepRank(cmds[i].cmd) > 1 =>
              /\ i > 1
              /\ cmds[i - 1].file = cmds[i].file
              /\ StepRank(cmds[i - 1].cmd) = StepRank(cmds[i].cmd) - 1
         /\ cmds[i].cmd = "inspect" =>
              /\ cmds[i].file \in WalkFiles
              /\ \A k \in 1..(i - 1) :
                   cmds[k].cmd # "pull" => Pos(cmds[k].file) < Pos(cmds[i].file)
    /\ Walking => \A j \in Range(issued) : j.id # "GIT_PUSH"

C7_Witness ==
  /\ WalkDone /\ wPull /\ SigEnd \in Range(emitted)
  /\ \E f, g \in WalkFiles : f # g /\ Logged("commit", f) /\ Logged("commit", g)

RemoveTargets(arg, isDir) ==
  IF isDir THEN PathsUnder(arg) ELSE { arg \o <<".gpg">> }

\* C9 as stated: a Remove with version control active dispatches one git rm
\* ("-rf" for a directory, "-f" otherwise) and then one commit and deletes
\* nothing itself; with version control inactive it dispatches nothing and
\* the file, or the directory with its contents, is gone from the disk.
C9_RemoveDispatch ==
  [][ (ops' = ops + 1 /\ lastOp'.op = "Remove")
      => IF lastOp'.git
         THEN /\ Len(issued') = 2
              /\ issued'[1].id = "GIT_RM" /\ issued'[1].flag = lastOp'.flag
              /\ issued'[2].id = "GIT_COMMIT"
              /\ jobs' = issued'
              /\ fs' = fs /\ decl' = decl
         ELSE /\ issued' = <<>> /\ jobs' = <<>>
              /\ \A p \in RemoveTargets(lastOp'.arg, lastOp'.flag) :
                   ~OnDisk(fs', decl', p) ]_vars

\* C10 as stated: the commit a Remove dispatches has the message
\* "Remove for <path> using QtPass." with the store-relative path given to
\* Remove, without the ciphertext suffix.
C10_RemoveMessage ==
  lastOp.op = "Remove" =>
    \A i \in DOMAIN issued :
      issued[i].id = "GIT_COMMIT" => issued[i].msg = Msg("Remove", lastOp.arg)

\* The fields of a line: the pieces between single space characters.
Fields(line) == SplitOn(line, " ")

\* The indices of the lines with more than four fields whose fifth field is
\* 16 characters long.
Qualifying(lines) ==
  { k \in DOMAIN lines :
      /\ Len(Fields(lines[k])) > 4
      /\ Len(Join(Fields(lines[k])[5])) = 16 }

IsSorted(s) == \A i, j \in DOMAIN s : i < j => Rank(s[i]) <= Rank(s[j])

C12_InsertDispatch ==
  [][ ( /\ ops' = ops + 1
        /\ lastOp'.op = "Insert"
        /\ Declared(FileName(lastOp'.arg)) # <<>> )
      => LET f == FileName(lastOp'.arg)
             overwrite == lastOp'.flag
             vc == lastOp'.git /\ ~lastOp'.webdav
             n == Len(issued')
         IN /\ jobs' = issued'
            /\ n = 1 + (IF vc THEN (IF overwrite THEN 1 ELSE 2) ELSE 0)
            /\ issued'[1].id = "PASS_INSERT"
            /\ issued'[1].file = f
            /\ issued'[1].rcpt = Declared(f)
            /\ issued'[1].flag = overwrite
            /\ issued'[1].input \in Plains
            /\ (vc /\ ~overwrite) =>
                 (issued'[2].id = "GIT_ADD" /\ issued'[2].file = f)
            /\ vc =>
                 /\ issued'[n].id = "GIT_COMMIT"
                 /\ issued'[n].file = f
                 /\ issued'[n].msg =
                      << (IF overwrite THEN "Edit" ELSE "\"Add"), " for " >>
                        \o lastOp'.arg \o << " using QtPass." >> ]_vars

C12_Witness ==
  /\ lastOp.op = "Insert" /\ ~lastOp.flag
  /\ Len(issued) = 3
  /\ issued[1].rcpt = << KeyB, KeyA >>
  /\ issued[3].msg = << "\"Add", " for ", "sub", "/", "b", " using QtPass." >>
  /\ passStore = << ".", "/" >>

\* C13 as stated: for an Insert with resolvable recipients and version
\* control active, once all of its jobs have completed, in whatever order
\* the executor completed them, the history holds exactly one new record,
\* with the Insert's message, and that record holds the ciphertext the
\* encrypt job wrote (the file is on disk, tracked, and has no uncommitted
\* change).
C13_OneRecordPerInsert ==
  ( /\ lastOp.op = "Insert"
    /\ Declared(FileName(lastOp.arg)) # <<>>
    /\ lastOp.git /\ ~lastOp.webdav
    /\ jobs = <<>> )
  => LET rel == lastOp.arg \o << ".gpg" >> IN
     /\ Len(history) = 1
     /\ history[1].path = rel
     /\ history[1].msg = issued[Len(issued)].msg
     /\ fs[lastOp.arg].exists
     /\ rel \in tracked
     /\ rel \notin dirty

\* C14 as stated: in an Init that commits the declaration file and goes on
\* to the walk, the declaration's stage and commit jobs have completed before
\* the walk runs its first command, and every "Edit for ..." record of the
\* walk comes after the "Added ..." record in the history.
C14_DeclarationCommitFirst ==
  ( /\ lastOp.op = "Init"
    /\ \E j \in Range(issued) : j.id = "GIT_COMMIT"
    /\ LogValid ) =>
    /\ cmds # <<>> =>
         \A j \in Range(jobs) : j.id \notin { "GIT_ADD", "GIT_COMMIT" }
    /\ \A i \in DOMAIN history :
         history[i].msg[1] = "Edit" =>
           \E k \in 1..(i - 1) : history[k].msg[1] = "Added"

\* The number of line terminators a text ends with.
RECURSIVE TrailingTerminators(_)
TrailingTerminators(text) ==
  IF text = <<>> \/ text[Len(text)] # "\n" THEN 0
  ELSE 1 + TrailingTerminators(SubSeq(text, 1, Len(text) - 1))

\* C15 as stated: the plaintext fed to every re-encrypt command ends with
\* exactly one line terminator, whatever the decrypted text ended with.
C15_ExactlyOneTerminator ==
  LogValid =>
    \A i \in DOMAIN cmds :
      cmds[i].cmd = "encrypt" => TrailingTerminators(cmds[i].text) = 1

\* C15 as amended: the plaintext fed to every re-encrypt command ends with at
\* least one line terminator: one when the decrypted text ended with none,
\* and as many as the decrypted text ended with otherwise.
C15_TerminatorEnsured ==
  LogValid =>
    \A i \in DOMAIN cmds :
      cmds[i].cmd = "encrypt" =>
        /\ i > 1
        /\ cmds[i - 1].cmd = "decrypt"
        /\ cmds[i - 1].file = cmds[i].file
        /\ TrailingTerminators(cmds[i].text) =
             (IF TrailingTerminators(cmds[i - 1].text) = 0 THEN 1
              ELSE TrailingTerminators(cmds[i - 1].text))

C15_Witness ==
  /\ WalkDone
  /\ \E i, k \in DOMAIN cmds :
       /\ cmds[i].cmd = "encrypt" /\ cmds[i].text = << "pw", "\n", "\n" >>
       /\ cmds[k].cmd = "encrypt" /\ cmds[k].text = << "pw", "\n" >>
       /\ cmds[k - 1].text = << "pw" >>

IsEnabled(user) == user.enabled

\* C16: an Init that can open the declaration file leaves in it exactly the
\* key identifiers of the enabled users, one per line, in the order of the
\* users list, whatever it held before, and touches no other declaration;
\* an Init that cannot open it writes nothing, dispatches no job, runs no
\* command and starts no walk.
C16_DeclarationContents ==
  [][ (ops' = ops + 1 /\ lastOp'.op = "Init")
      => IF lastOp'.canOpen
         THEN LET enabled == SelectSeq(lastOp'.users, IsEnabled) IN
              /\ decl'[lastOp'.arg].exists
              /\ decl'[lastOp'.arg].ids =
                   [i \in DOMAIN enabled |-> enabled[i].key_id]
              /\ \A d \in RelDirs \ { lastOp'.arg } : decl'[d] = decl[d]
         ELSE /\ decl' = decl
              /\ fs' = fs
              /\ emitted' = << CritCannotUpdate >>
              /\ issued' = <<>>
              /\ jobs' = jobs
              /\ cmds' = cmds
              /\ pc' = "idle" ]_vars

C16_Witness ==
  /\ lastOp.op = "Init" /\ lastOp.canOpen
  /\ lastOp.users[1].key_id = KeyA /\ ~lastOp.users[1].enabled
  /\ decl[lastOp.arg].ids = << KeyB >>
  /\ pc = "begin"

\* C17 as stated: for every entry a walk visits, the declared list its
\* actual recipients are compared with is the sorted recipient list resolved
\* for that entry's own path.
C17_OwnDeclaration ==
  (Walking /\ cmds # <<>> /\ cmds[Len(cmds)].cmd = "inspect") =>
    gpgId = Sort(Declared(cmds[Len(cmds)].file))

\* The number of times a signal is in a list of emitted signals.
Count(sig, sigs) == Cardinality({ i \in DOMAIN sigs : sigs[i] = sig })

\* C18 as stated: a walk that has emitted its start notification and has
\* returned has emitted the end notification exactly once, and a walk under
\* way has not emitted it yet.
C18_Bracketed ==
  /\ WalkDone => (Count(SigStart, emitted) = 1 /\ Count(SigEnd, emitted) = 1)
  /\ Walking => (Count(SigStart, emitted) = 1 /\ Count(SigEnd, emitted) = 0)

\* C19 as stated: a walk run right after a walk that completed with every
\* decryption and encryption succeeding, over the same store and the same
\* declarations, runs no decrypt, no encrypt and no commit command, whatever
\* the declarations contain.
C19_FixedPoint ==
  (lastOp.op = "reencryptPath" /\ lastOp.flag /\ LogValid) =>
    \A i \in DOMAIN cmds : cmds[i].cmd \notin { "decrypt", "encrypt", "commit" }

\* C20: the plaintext fed to every re-encrypt command is the text the
\* entry's decrypt command returned, with at most one line terminator
\* appended and nothing else changed; that text is neither empty nor the
\* sentinel; and no entry on disk holds an empty plaintext or the sentinel,
\* the re-encrypted entries holding the text their encrypt command was fed.
C20_SecretPreserved ==
  /\ \A n \in Names :
       fs[n].exists => (fs[n].plain # <<>> /\ fs[n].plain # Sentinel)
  /\ LogValid =>
       \A i \in DOMAIN cmds :
         cmds[i].cmd = "encrypt" =>
           /\ i > 1
           /\ cmds[i - 1].cmd = "decrypt"
           /\ cmds[i - 1].file = cmds[i].file
           /\ cmds[i - 1].text # <<>>
           /\ cmds[i - 1].text # Sentinel
           /\ \/ cmds[i].text = cmds[i - 1].text
              \/ cmds[i].text = cmds[i - 1].text \o << "\n" >>
           /\ SubSeq(fs[EntryOf(passStore, cmds[i].file)].plain, 1,
                     Len(cmds[i - 1].text)) = cmds[i - 1].text

C20_Witness ==
  /\ WalkDone
  /\ \E i, k \in DOMAIN cmds :
       /\ cmds[i].cmd = "encrypt"
       /\ cmds[i].text = cmds[i - 1].text \o << "\n" >>
       /\ fs[EntryOf(passStore, cmds[i].file)].plain = cmds[i].text
       /\ cmds[k].cmd = "decrypt" /\ cmds[k].text = Sentinel
       /\ fs[EntryOf(passStore, cmds[k].file)].plain # Sentinel

====
